---- MODULE Spec2Model ----
(***************************************************************************)
(* Model of music-organizer (src/src/lib.rs, src/src/main.rs): one run of  *)
(* organize_songs or shuffle_songs over a small file system.               *)
(*                                                                         *)
(* Strings are sequences of one-character strings; "NUL" stands for the    *)
(* character U+0000.  A path is a sequence of components, each a string.   *)
(* Every file system call of a run and every "already exists" notice is    *)
(* appended to log, with its outcome; an I/O failure (permission denied,   *)
(* disk full) may be injected into any call that changes the file system.  *)
(* File names are valid UTF-8, as the expect() calls of the code require.  *)
(***************************************************************************)
EXTENDS Integers, Sequences, FiniteSets, TLC

\* ------------------------------------------------------------------ bounds

\* longest string handed to the sanitizer in SpecSan
MaxLen == 3

\* most entries of the input directory that scan as songs
MaxSongs == 2

\* ------------------------------------------------------- name sanitization

NUL == "NUL"

\* lib.rs:139 with one atom lost (the optional star): a plausible slip
SanitizationRegexNoStar == <<"<", ">", ":", "\"", "/", "\\", "|", "?", NUL>>

\* lib.rs:139  r#"<?>?:?"?/?\\?\|?\??\*?\x00?"# : a concatenation of optional
\* single-character atoms, in this order
create_sanitization_regex == <<"<", ">", ":", "\"", "/", "\\", "|", "?", "*", NUL>>

\* End offset of the regex's match starting at offset pos (0-based) of text:
\* every atom x? is greedy, so it consumes the next character when that
\* character is x and matches the empty string otherwise; nothing after the
\* last atom can fail, so the first (greedy) choice is the match.
RECURSIVE MatchEnd(_, _, _, _)
MatchEnd(re, text, pos, k) ==
    IF k > Len(re) THEN pos
    ELSE IF pos < Len(text) /\ text[pos + 1] = re[k]
         THEN MatchEnd(re, text, pos + 1, k + 1)
         ELSE MatchEnd(re, text, pos, k + 1)

\* text[from+1 .. to] (offsets as in a Rust slice &text[from..to])
Slice(text, from, to) == SubSeq(text, from + 1, to)

\* Regex::replace_all(text, "") : the loop of Regex::replacen over find_iter.
\*   last_end   : where the next search starts (Matches::last_end)
\*   last_match : end of the previous match, or -1 for None (Matches::last_match)
\*   copied     : end of the last replaced match (replacen's last_match)
\*   acc        : the new string so far
\* The pattern matches at every offset (possibly empty), so the leftmost match
\* at or after last_end starts at last_end.  An empty match advances the search
\* by one character and is dropped when it touches the previous match.
RECURSIVE ReplaceLoop(_, _, _, _, _, _)
ReplaceLoop(re, text, last_end, last_match, copied, acc) ==
    IF last_end > Len(text)
    THEN acc \o Slice(text, copied, Len(text))
    ELSE LET s == last_end
             e == MatchEnd(re, text, s, 1)
         IN  IF s = e
             THEN IF e = last_match
                  THEN ReplaceLoop(re, text, e + 1, last_match, copied, acc)
                  ELSE ReplaceLoop(re, text, e + 1, e, e, acc \o Slice(text, copied, s))
             ELSE ReplaceLoop(re, text, e, e, e, acc \o Slice(text, copied, s))

\* lib.rs:295  String::from(regex.replace_all(&str, ""))
Sanitize(str) == ReplaceLoop(create_sanitization_regex, str, 0, -1, 0, <<>>)

\* ---------------------------------------------------------- names and paths

MP3 == <<"m", "p", "3">>
Unknown == <<"U", "n", "k", "n", "o", "w", "n">>
Dot == <<".">>
DotDot == <<".", ".">>

NameA == <<"a", ".", "m", "p", "3">>
NameB == <<"b", ".", "m", "p", "3">>
NameNoExt == MP3                             \* a file named `mp3`
NameTxt == <<"c", ".", "t", "x", "t">>
NameUpper == <<"e", ".", "M", "P", "3">>
NameSubdir == <<"d", ".", "m", "p", "3">>    \* a subdirectory

InputRoot == <<"m">>
OutputName == <<"o", "u", "t", "p", "u", "t">>
OtherRoot == <<"o">>
LabelA == <<"A">>

\* What the operating system makes of a path: `` and `.` name the directory
\* itself, `..` its parent (the root is its own parent).
RECURSIVE Resolve(_)
Resolve(path) ==
    IF path = <<>> THEN <<>>
    ELSE LET r == Resolve(SubSeq(path, 1, Len(path) - 1))
             c == path[Len(path)]
         IN  IF c = <<>> \/ c = Dot THEN r
             ELSE IF c = DotDot
                  THEN (IF r = <<>> THEN <<>> ELSE SubSeq(r, 1, Len(r) - 1))
                  ELSE Append(r, c)

Parent(p) == SubSeq(p, 1, Len(p) - 1)

\* PathBuf::push of one component (lib.rs:225, 253, 267, 270); the components
\* pushed here never hold a separator, so push appends
Push(path, component) == Append(path, component)

\* Path::file_name of a path read_dir returned (lib.rs:219, 263)
FileName(path) == path[Len(path)]

\* -------------------------------------------------------------- file system
\* dirs  : the set of (resolved) paths that are directories
\* files : a function from the (resolved) paths of regular files to their
\*         content, [data, artist]; artist is what id3 reads from the file:
\*         <<>> for None (no tag, no artist frame, unparsable file) and <<s>>
\*         for Some(s)

NoArtist == <<>>
Some(s) == <<s>>
NoContent == [data |-> "", artist |-> NoArtist]

Event(op, path, res, from, data) ==
    [op |-> op, path |-> path, target |-> Resolve(path), res |-> res,
     from |-> from, data |-> data]

\* std::fs::create_dir, with its outcome: "exists" is ErrorKind::AlreadyExists,
\* "err" any other error (a missing parent, or an injected failure such as
\* permission denied)
create_dir(ds, fs, path, inject) ==
    LET d == Resolve(path)
        res == IF d \in ds \/ d \in DOMAIN fs THEN "exists"
               ELSE IF inject \/ Parent(d) \notin ds THEN "err"
               ELSE "ok"
    IN  [res |-> res, dirs |-> IF res = "ok" THEN ds \cup {d} ELSE ds]

\* std::fs::metadata(path).is_ok(), as the kind of what is there
metadata(ds, fs, path) ==
    LET d == Resolve(path)
    IN  IF d \in DOMAIN fs THEN "file" ELSE IF d \in ds THEN "dir" ELSE "none"

\* std::fs::remove_file
remove_file(fs, path, inject) ==
    LET d == Resolve(path)
        ok == d \in DOMAIN fs /\ ~inject
    IN  [res |-> IF ok THEN "ok" ELSE "err",
         files |-> IF ok THEN [p \in DOMAIN fs \ {d} |-> fs[p]] ELSE fs]

\* std::fs::copy: the destination is created or truncated, then filled
copy(ds, fs, from, to, inject) ==
    LET s == Resolve(from)
        d == Resolve(to)
        ok == /\ s \in DOMAIN fs
              /\ d \notin ds
              /\ d # <<>>
              /\ Parent(d) \in ds
              /\ ~inject
        content == IF s = d THEN NoContent ELSE fs[s]
    IN  [res |-> IF ok THEN "ok" ELSE "err",
         data |-> IF ok THEN content ELSE NoContent,
         files |-> IF ok THEN [p \in DOMAIN fs \cup {d} |-> IF p = d THEN content ELSE fs[p]]
                   ELSE fs]

\* ------------------------------------------------------------------ scanner

\* name.split(".").last() (lib.rs:320-324): the part after the last dot, the
\* whole name when it holds no dot
RECURSIVE SplitLast(_)
SplitLast(name) ==
    IF name = <<>> THEN <<>>
    ELSE IF name[Len(name)] = "." THEN <<>>
    ELSE Append(SplitLast(SubSeq(name, 1, Len(name) - 1)), name[Len(name)])

\* the filter closure of get_songs_from_path (lib.rs:316-330) on an entry
IsSongEntry(fs, path) == path \in DOMAIN fs /\ SplitLast(FileName(path)) = MP3

\* read_dir's entries: the direct children of the directory
DirEntries(ds, fs, dir) ==
    {p \in ds \cup DOMAIN fs : p # <<>> /\ Parent(p) = Resolve(dir)}

\* the paths get_songs_from_path collects (lib.rs:314-332), as a set; read_dir
\* yields them in an order the operating system chooses
SongPathSet(ds, fs, dir) == {p \in DirEntries(ds, fs, dir) : IsSongEntry(fs, p)}

\* all orderings of a finite set
RECURSIVE Orderings(_)
Orderings(S) ==
    IF S = {} THEN {<<>>}
    ELSE UNION {{<<x>> \o o : o \in Orderings(S \ {x})} : x \in S}

\* ---------------------------------------------------------------- tag reader

\* get_artist_from_file (lib.rs:304-309): tag.artist(), None on a read error
get_artist_from_file(fs, file_path) == fs[file_path].artist

\* ------------------------------------------------------------------ grouper

\* get_artist_from_file(..).unwrap_or("Unknown") then the sanitizer
\* (lib.rs:293-296)
ArtistLabel(fs, song_path) ==
    LET a == get_artist_from_file(fs, song_path)
    IN  Sanitize(IF a = NoArtist THEN Unknown ELSE a[1])

\* organized_paths.entry(artist).or_insert(Vec::new()).push(song_path)
RECURSIVE GroupFold(_, _, _)
GroupFold(fs, song_list, organized_paths) ==
    IF song_list = <<>> THEN organized_paths
    ELSE LET song_path == Head(song_list)
             artist == ArtistLabel(fs, song_path)
             next == IF artist \in DOMAIN organized_paths
                     THEN [organized_paths EXCEPT ![artist] = Append(@, song_path)]
                     ELSE [a \in DOMAIN organized_paths \cup {artist} |->
                              IF a = artist THEN <<song_path>> ELSE organized_paths[a]]
         IN  GroupFold(fs, Tail(song_list), next)

\* group_song_list_by_artist (lib.rs:288-302)
group_song_list_by_artist(fs, song_list) == GroupFold(fs, song_list, <<>>)

\* ------------------------------------------------------------------- copier

\* a `?` that never returns: the error is dropped and the run goes on
FailedNever(res) == FALSE

\* the `?` after remove_file and copy (lib.rs:229-230, 235, 274-275, 280) and
\* the `_ => return Err(e)` arms (lib.rs:205, 258): whether a result makes the
\* function return the error
Failed(res) == res = "err"

\* The per-file existence and overwrite policy, the same statements in both
\* loops (lib.rs:227-236 and lib.rs:272-281).  fault names the operation an
\* I/O failure is injected into: "none", "remove" or "copy".
copy_or_skip(ds, fs, from, to, overwrite, fault) ==
    LET kind == metadata(ds, fs, to)
        stat == Event("metadata", to, kind, <<>>,
                      IF kind = "file" THEN fs[Resolve(to)] ELSE NoContent)
    IN  IF kind # "none"
        THEN IF overwrite
             THEN LET rm == remove_file(fs, to, fault = "remove")
                      rmEv == Event("remove_file", to, rm.res, <<>>, NoContent)
                      cp == copy(ds, rm.files, from, to, fault = "copy")
                      cpEv == Event("copy", to, cp.res, from, cp.data)
                  IN  IF Failed(rm.res)
                      THEN [files |-> fs, events |-> <<stat, rmEv>>, err |-> TRUE]
                      ELSE [files |-> cp.files, events |-> <<stat, rmEv, cpEv>>,
                            err |-> Failed(cp.res)]
             ELSE [files |-> fs,
                   events |-> <<stat, Event("notice", to, "ok", from, NoContent)>>,
                   err |-> FALSE]
        ELSE LET cp == copy(ds, fs, from, to, fault = "copy")
                 cpEv == Event("copy", to, cp.res, from, cp.data)
             IN  [files |-> cp.files, events |-> <<stat, cpEv>>, err |-> Failed(cp.res)]

\* the index counted from one
ShuffledNameFromOne(i, file_name) ==
    <<(<<"1", "2", "3", "4", "5", "6", "7", "8", "9">>)[i + 1], " ", "-", " ">> \o file_name

\* format!("{} - {}", i, file_name_str) (lib.rs:223), for i below 10
Digits == <<"0", "1", "2", "3", "4", "5", "6", "7", "8", "9">>
ShuffledName(i, file_name) == <<Digits[i + 1], " ", "-", " ">> \o file_name

\* -------------------------------------------------------------------- state

VARIABLES
    mode,           \* OperationMode: "Organize" or "Shuffle"
    app_config,     \* AppConfig: input_dir, output_dir, overwrite
    dirs, files,    \* the file system
    pc,             \* where the run is
    songs,          \* the SongList
    grouped_songs,  \* GroupedSongs: label -> SongList
    remaining,      \* the labels the loop over grouped_songs has not visited
    artist, paths,  \* the bucket being written and its songs not yet written
    idx,            \* the enumerate() index of the shuffled loop
    result,         \* "none", then "Ok", "Err" or "Panic"
    log,            \* the file system calls and notices of the run, in order
    dirs0, files0,  \* the file system when the run started
    sanTrace        \* SpecSan: a string and its successive sanitizations

vars == <<mode, app_config, dirs, files, pc, songs, grouped_songs, remaining,
          artist, paths, idx, result, log, dirs0, files0, sanTrace>>

\* ------------------------------------------------------- initial file systems

InputDir == <<InputRoot>>
OutputDirs == {<<InputRoot>>, <<InputRoot, OutputName>>, <<OtherRoot>>}
SongNames == {NameA, NameB, NameNoExt}
TagPool == {NoArtist, Some(<<>>), Some(LabelA), Some(<<"A", "/">>), Some(<<".", "/", ".">>)}
\* the names whose earlier copies may lie in the output tree: none or one
PreSets(E) == {{}} \cup {{n} : n \in E}
\* Shuffle never reads a tag: two values stand for all
TagsOf(m) == IF m = "Organize" THEN TagPool ELSE {NoArtist, Some(LabelA)}
PreLabels == {LabelA, Unknown, <<>>}

DataOf(name) ==
    CASE name = NameA -> "a" [] name = NameB -> "b" [] name = NameNoExt -> "m"
      [] OTHER -> "x"
Old == [data |-> "old", artist |-> NoArtist]

\* what an input directory that is not empty holds besides its songs: files
\* that are no songs, and a subdirectory
ClutterFiles == {Push(InputDir, NameTxt), Push(InputDir, NameUpper)}
ClutterDirs == {Push(InputDir, NameSubdir)}

\* files left in the output tree before the run: for Organize a copy of each
\* name of pre under every label of PreLabels, for Shuffle every name of E
\* under the indices of preIdx
PreFiles(m, out, E, pre, preIdx) ==
    IF m = "Organize"
    THEN {Resolve(Push(Push(out, l), n)) : l \in PreLabels, n \in pre}
    ELSE {Push(out, ShuffledName(i, n)) : i \in preIdx, n \in E}

InitFs(out, E, tag, clutter, outExists, preFiles) ==
    LET srcFiles == {Push(InputDir, n) : n \in E}
        allFiles == srcFiles \cup preFiles \cup (IF clutter THEN ClutterFiles ELSE {})
    IN  [dirs |-> {<<>>, InputDir} \cup {Parent(p) : p \in preFiles}
                  \cup (IF outExists \/ preFiles # {} THEN {out} ELSE {})
                  \cup (IF clutter THEN ClutterDirs ELSE {}),
         files |-> [p \in allFiles |->
                      IF p \in srcFiles
                      THEN [data |-> DataOf(FileName(p)), artist |-> tag[FileName(p)]]
                      ELSE IF p \in preFiles THEN Old
                      ELSE [data |-> "x", artist |-> NoArtist]]]

\* an input directory that was shuffled into itself before: a song, an
\* earlier copy `i - name` of it and an earlier copy `j - i - name` of that
\* copy, each with a content of its own
InPlaceFs(n, i, j) ==
    LET first == ShuffledName(i, n)
        second == ShuffledName(j, first)
    IN  [dirs |-> {<<>>, InputDir},
         files |-> [p \in {Push(InputDir, n), Push(InputDir, first), Push(InputDir, second)} |->
                      IF FileName(p) = n THEN [data |-> DataOf(n), artist |-> NoArtist]
                      ELSE IF FileName(p) = first THEN Old
                      ELSE [data |-> "x", artist |-> NoArtist]]]

Idle(m, out, ow, fs) ==
    /\ mode = m
    /\ app_config = [input_dir |-> InputDir, output_dir |-> out, overwrite |-> ow]
    /\ dirs = fs.dirs /\ files = fs.files
    /\ dirs0 = fs.dirs /\ files0 = fs.files
    /\ pc = "start"
    /\ songs = <<>> /\ grouped_songs = <<>> /\ remaining = {}
    /\ artist = <<>> /\ paths = <<>> /\ idx = 0
    /\ result = "none" /\ log = <<>>

Init ==
    /\ sanTrace = <<>>
    /\ \E m \in {"Organize", "Shuffle"}, out \in OutputDirs, ow \in BOOLEAN :
         \/ \* the input directory does not exist
            Idle(m, out, ow, [dirs |-> {<<>>}, files |-> <<>>])
         \/ \* Shuffle run again in a directory it was shuffled into before
            \E n \in {NameA}, i \in 0 .. 1, j \in 0 .. 1 :
               m = "Shuffle" /\ out = InputDir /\ i # j /\ Idle(m, out, ow, InPlaceFs(n, i, j))
         \/ \E E \in SUBSET SongNames, outExists \in BOOLEAN :
              \E tag \in [E -> TagsOf(m)], pre \in PreSets(E), preIdx \in SUBSET (0 .. MaxSongs - 1) :
                 /\ Cardinality(E) <= MaxSongs
                 /\ IF m = "Organize" THEN preIdx = {} ELSE pre = {}
                 /\ LET fs == InitFs(out, E, tag, E # {}, outExists,
                                     PreFiles(m, out, E, pre, preIdx))
                    IN  /\ Cardinality(SongPathSet(fs.dirs, fs.files, InputDir)) <= MaxSongs
                        /\ Idle(m, out, ow, fs)

\* ------------------------------------------------------------------ actions

Finish(res) == pc' = "done" /\ result' = res

\* get_songs_from_path and the unwrap() of its result (lib.rs:164, 189,
\* 311-335).  read_dir fails when the directory is missing or, injected, when
\* it may not be read; the unwrap turns the Err into a panic.
GetSongs ==
    /\ pc = "start"
    /\ \E denied \in BOOLEAN :
         IF denied \/ Resolve(app_config.input_dir) \notin dirs
         THEN /\ Finish("Panic")
              /\ log' = Append(log, Event("read_dir", app_config.input_dir, "err", <<>>, NoContent))
              /\ UNCHANGED songs
         ELSE /\ \E song_paths \in Orderings(SongPathSet(dirs, files, app_config.input_dir)) :
                    songs' = song_paths
              /\ log' = Append(log, Event("read_dir", app_config.input_dir, "ok", <<>>, NoContent))
              /\ pc' = IF mode = "Organize" THEN "group" ELSE "shuffle"
              /\ UNCHANGED result
    /\ UNCHANGED <<mode, app_config, dirs, files, grouped_songs, remaining, artist,
                   paths, idx, dirs0, files0, sanTrace>>

\* organize_songs, lib.rs:167
Group ==
    /\ pc = "group"
    /\ grouped_songs' = group_song_list_by_artist(files, songs)
    /\ remaining' = DOMAIN grouped_songs'
    /\ pc' = "outdir"
    /\ UNCHANGED <<mode, app_config, dirs, files, songs, artist, paths, idx, result,
                   log, dirs0, files0, sanTrace>>

\* shuffle_songs, lib.rs:192-193: any permutation
Shuffle ==
    /\ pc = "shuffle"
    /\ \E shuffled \in Orderings({songs[k] : k \in 1 .. Len(songs)}) : songs' = shuffled
    /\ pc' = "outdir"
    /\ UNCHANGED <<mode, app_config, dirs, files, grouped_songs, remaining, artist,
                   paths, idx, result, log, dirs0, files0, sanTrace>>

\* create_output_dir (lib.rs:198-210) and the `?` of its callers (215, 249)
CreateOutputDir ==
    /\ pc = "outdir"
    /\ \E inject \in BOOLEAN :
         LET r == create_dir(dirs, files, app_config.output_dir, inject)
         IN  /\ dirs' = r.dirs
             /\ log' = Append(log, Event("create_dir", app_config.output_dir, r.res, <<>>, NoContent))
             /\ IF Failed(r.res)
                THEN Finish("Err")
                ELSE /\ pc' = IF mode = "Organize" THEN "artists" ELSE "copy"
                     /\ UNCHANGED result
    /\ UNCHANGED <<mode, app_config, files, songs, grouped_songs, remaining, artist,
                   paths, idx, dirs0, files0, sanTrace>>

\* output_grouped_songs, lib.rs:251-260: the next bucket, in the HashMap's
\* order (any), and its directory
NextArtist ==
    /\ pc = "artists"
    /\ \E a \in remaining, inject \in BOOLEAN :
         LET new_dir_path == Push(app_config.output_dir, a)
             r == create_dir(dirs, files, new_dir_path, inject)
         IN  /\ dirs' = r.dirs
             /\ log' = Append(log, Event("create_dir", new_dir_path, r.res, <<>>, NoContent))
             /\ remaining' = remaining \ {a}
             /\ IF Failed(r.res)
                THEN Finish("Err") /\ UNCHANGED <<artist, paths>>
                ELSE /\ artist' = a
                     /\ paths' = grouped_songs[a]
                     /\ pc' = "bucket"
                     /\ UNCHANGED result
    /\ UNCHANGED <<mode, app_config, files, songs, grouped_songs, idx, dirs0, files0,
                   sanTrace>>

\* output_grouped_songs, lib.rs:262-282: one song of the bucket
OutputGroupedSong ==
    /\ pc = "bucket"
    /\ paths # <<>>
    /\ \E fault \in {"none", "remove", "copy"} :
         LET path == Head(paths)
             file_name == FileName(path)
             input_path == Push(app_config.input_dir, file_name)
             output_path == Push(Push(app_config.output_dir, artist), file_name)
             r == copy_or_skip(dirs, files, input_path, output_path,
                               app_config.overwrite, fault)
         IN  /\ files' = r.files
             /\ log' = log \o r.events
             /\ paths' = Tail(paths)
             /\ IF r.err
                THEN Finish("Err")
                ELSE /\ pc' = IF Tail(paths) = <<>> THEN "artists" ELSE "bucket"
                     /\ UNCHANGED result
    /\ UNCHANGED <<mode, app_config, dirs, songs, grouped_songs, remaining, artist,
                   idx, dirs0, files0, sanTrace>>

\* output_grouped_songs, lib.rs:285
OutputGroupedReturn ==
    /\ pc = "artists"
    /\ remaining = {}
    /\ Finish("Ok")
    /\ UNCHANGED <<mode, app_config, dirs, files, songs, grouped_songs, remaining,
                   artist, paths, idx, log, dirs0, files0, sanTrace>>

\* output_shuffled_songs, lib.rs:217-237: one song
OutputShuffledSong ==
    /\ pc = "copy"
    /\ idx < Len(songs)
    /\ \E fault \in {"none", "remove", "copy"} :
         LET path == songs[idx + 1]
             output_song_path == Push(app_config.output_dir,
                                      ShuffledName(idx, FileName(path)))
             r == copy_or_skip(dirs, files, path, output_song_path,
                               app_config.overwrite, fault)
         IN  /\ files' = r.files
             /\ log' = log \o r.events
             /\ idx' = idx + 1
             /\ IF r.err
                THEN Finish("Err")
                ELSE UNCHANGED <<pc, result>>
    /\ UNCHANGED <<mode, app_config, dirs, songs, grouped_songs, remaining, artist,
                   paths, dirs0, files0, sanTrace>>

\* output_shuffled_songs, lib.rs:239
OutputShuffledReturn ==
    /\ pc = "copy"
    /\ idx = Len(songs)
    /\ Finish("Ok")
    /\ UNCHANGED <<mode, app_config, dirs, files, songs, grouped_songs, remaining,
                   artist, paths, idx, log, dirs0, files0, sanTrace>>

Next ==
    \/ GetSongs
    \/ Group
    \/ Shuffle
    \/ CreateOutputDir
    \/ NextArtist
    \/ OutputGroupedSong
    \/ OutputGroupedReturn
    \/ OutputShuffledSong
    \/ OutputShuffledReturn

Spec == Init /\ [][Next]_vars

\* ------------------------------------------------- the sanitizer on its own

SanAlphabet == {"<", ">", ":", "\"", "/", "\\", "|", "?", "*", NUL, "a", "."}
SanStrings == UNION {[1 .. n -> SanAlphabet] : n \in 0 .. MaxLen}

InitSan ==
    /\ \E s \in SanStrings : sanTrace = <<s>>
    /\ mode = "Organize"
    /\ app_config = [input_dir |-> InputDir, output_dir |-> <<OtherRoot>>,
                     overwrite |-> FALSE]
    /\ dirs = {<<>>} /\ files = <<>> /\ dirs0 = {<<>>} /\ files0 = <<>>
    /\ pc = "sanitize"
    /\ songs = <<>> /\ grouped_songs = <<>> /\ remaining = {}
    /\ artist = <<>> /\ paths = <<>> /\ idx = 0
    /\ result = "none" /\ log = <<>>

\* regex.replace_all(&str, "") (lib.rs:295), applied to its own result
SanitizeStep ==
    /\ pc = "sanitize"
    /\ Len(sanTrace) < 3
    /\ sanTrace' = Append(sanTrace, Sanitize(sanTrace[Len(sanTrace)]))
    /\ UNCHANGED <<mode, app_config, dirs, files, pc, songs, grouped_songs, remaining,
                   artist, paths, idx, result, log, dirs0, files0>>

SpecSan == InitSan /\ [][SanitizeStep]_vars

\* ------------------------------------------------------------------- claims

IllegalChars == {"<", ">", ":", "\"", "/", "\\", "|", "?", "*", NUL}
IsLegalChar(c) == c \notin IllegalChars

\* C3: sanitizing removes every occurrence of the ten illegal characters and
\* nothing else, keeps the order of what is left, and sanitizing the result
\* again changes nothing.
C3_SanitizeExactAndIdempotent ==
    /\ Len(sanTrace) >= 2 => sanTrace[2] = SelectSeq(sanTrace[1], IsLegalChar)
    /\ Len(sanTrace) >= 3 => sanTrace[3] = sanTrace[2]

C3_Witness ==
    /\ Len(sanTrace) = 3
    /\ sanTrace[1] = <<"*", "a", "<">>
    /\ sanTrace[3] = <<"a">>

\* ---- helpers of the claims about a run

OutDir == Resolve(app_config.output_dir)
InDir == Resolve(app_config.input_dir)

\* p lies below directory d
Under(p, d) == Len(p) > Len(d) /\ SubSeq(p, 1, Len(d)) = d

EventsAt == 1 .. Len(log)
ScanFailed == Len(log) >= 1 /\ log[1].op = "read_dir" /\ log[1].res = "err"
Scanned == Len(log) >= 1 /\ log[1].op = "read_dir" /\ log[1].res = "ok"

\* the output directory was absent or empty when the run started
OutputFreshAtStart ==
    /\ OutDir \notin DOMAIN files0
    /\ \A p \in dirs0 \cup DOMAIN files0 : ~Under(p, OutDir)

\* the songs the scanner saw
ScannedSet == {songs[k] : k \in 1 .. Len(songs)}

\* name (a song path) was copied, or skipped because its destination existed
Handled(song) ==
    \E k \in EventsAt :
        /\ Resolve(log[k].from) = song
        /\ \/ log[k].op = "copy" /\ log[k].res = "ok"
           \/ log[k].op = "notice"

\* C1: no file of the input directory is deleted or has its content changed
\* by a run, whatever the configuration and the artist tags.
C1_InputFilesUntouched ==
    \A p \in DOMAIN files0 :
        Parent(p) = InDir => p \in DOMAIN files /\ files[p] = files0[p]

\* the extension of a name: the part after its last dot, when it has a dot
HasDot(name) == \E k \in 1 .. Len(name) : name[k] = "."

\* C2: the scanner returns exactly the direct entries that are regular files
\* whose name ends in the extension mp3; a name without any dot (`c`, `mp3`)
\* has no extension and is excluded.
C2_ScanExactlyMp3Extension ==
    Scanned =>
        ScannedSet = {p \in DOMAIN files0 :
                        /\ Parent(p) = InDir
                        /\ HasDot(FileName(p))
                        /\ SplitLast(FileName(p)) = MP3}

\* the label the claim gives a song: the sanitized artist when the tag is
\* readable, present and not empty, the sanitized "Unknown" otherwise
ClaimedLabel(song) ==
    LET a == files0[song].artist
    IN  Sanitize(IF a = NoArtist \/ a[1] = <<>> THEN Unknown ELSE a[1])

Grouped == mode = "Organize" /\ pc \in {"outdir", "artists", "bucket", "done"} /\ Scanned

\* positions of the songs of a bucket in the song list are increasing
InInputOrder(bucket) ==
    \A x, y \in 1 .. Len(bucket) :
        x < y => \E u, v \in 1 .. Len(songs) :
                    u < v /\ songs[u] = bucket[x] /\ songs[v] = bucket[y]

\* the places <<label, position>> of the grouped songs
BucketSlots ==
    UNION {{<<a, k>> : k \in 1 .. Len(grouped_songs[a])} : a \in DOMAIN grouped_songs}

\* C4: grouping partitions the song list (each path in exactly one bucket,
\* once, in input order, nothing foreign), and the key of a path is its
\* sanitized artist, or "Unknown" when there is no artist or an empty one.
C4_GroupingPartitionsByLabel ==
    Grouped =>
        /\ \A s \in ScannedSet :
              Cardinality({sl \in BucketSlots : grouped_songs[sl[1]][sl[2]] = s}) = 1
        /\ \A a \in DOMAIN grouped_songs :
              /\ \A k \in 1 .. Len(grouped_songs[a]) :
                    /\ grouped_songs[a][k] \in ScannedSet
                    /\ a = ClaimedLabel(grouped_songs[a][k])
              /\ InInputOrder(grouped_songs[a])

\* the label a song was grouped under
LabelOf(song) ==
    CHOOSE a \in DOMAIN grouped_songs :
        \E k \in 1 .. Len(grouped_songs[a]) : grouped_songs[a][k] = song

\* C5: after a successful Organize run into an absent or empty output
\* directory, the output directory holds one subdirectory per label, each
\* song at output/<label>/<file name> with the song's content, nothing else.
C5_OrganizedTree ==
    (mode = "Organize" /\ pc = "done" /\ result = "Ok" /\ OutputFreshAtStart) =>
        /\ {p \in dirs : Under(p, OutDir)} =
              {Append(OutDir, a) : a \in DOMAIN grouped_songs}
        /\ {p \in DOMAIN files : Under(p, OutDir)} =
              {OutDir \o <<LabelOf(s), FileName(s)>> : s \in ScannedSet}
        /\ \A s \in ScannedSet :
              files[OutDir \o <<LabelOf(s), FileName(s)>>] = files0[s]

\* C8: an input directory that cannot be read makes the run return an I/O
\* error (not panic) and leaves the output location as it was.
C8_UnreadableInputReturnsErr ==
    (pc = "done" /\ ScanFailed) =>
        /\ result = "Err"
        /\ dirs = dirs0 /\ files = files0

\* C10: every directory created, file removed and file written lies inside
\* the output directory: in Organize the directories are its children and the
\* files are at depth two, in Shuffle the files are its children.
C10_MutationsInsideOutput ==
    \A k \in EventsAt :
        /\ (log[k].op = "create_dir" /\ log[k].res = "ok" /\ log[k].path # app_config.output_dir)
              => Parent(log[k].target) = OutDir
        /\ log[k].op \in {"remove_file", "copy"} =>
              IF mode = "Organize"
              THEN Under(log[k].target, OutDir) /\ Len(log[k].target) = Len(OutDir) + 2
              ELSE Under(log[k].target, OutDir) /\ Len(log[k].target) = Len(OutDir) + 1

NoFailure == \A j \in EventsAt : log[j].res # "err"

\* C6: a song whose destination exists as a file when it is processed: with
\* overwrite off the destination keeps its content, the step raises no error
\* and the run goes on (and returns Ok when nothing fails); with overwrite on
\* the destination is removed, then copied, and after a successful run its
\* content equals the content of the source file.
C6_ExistingDestinationPolicy ==
    \A k \in EventsAt :
        (log[k].op = "metadata" /\ log[k].res = "file") =>
            LET d == log[k].target
            IN  /\ k < Len(log)
                /\ IF ~app_config.overwrite
                   THEN /\ log[k + 1].op = "notice" /\ log[k + 1].target = d
                        /\ log[k + 1].res = "ok"
                        /\ d \in DOMAIN files /\ files[d] = log[k].data
                        /\ (k + 1 = Len(log) /\ pc = "done") => result = "Ok"
                        /\ (NoFailure /\ pc = "done") => result = "Ok"
                   ELSE /\ log[k + 1].op = "remove_file" /\ log[k + 1].target = d
                        /\ log[k + 1].res = "ok" =>
                              /\ k + 2 <= Len(log)
                              /\ log[k + 2].op = "copy" /\ log[k + 2].target = d
                        /\ (pc = "done" /\ result = "Ok") =>
                              /\ log[k + 1].res = "ok" /\ log[k + 2].res = "ok"
                              /\ d \in DOMAIN files
                              /\ Resolve(log[k + 2].from) \in DOMAIN files
                              /\ files[d] = files[Resolve(log[k + 2].from)]

\* the name the claim gives the i-th file of a shuffled run
ClaimedShuffledName(i, file_name) ==
    <<(<<"0", "1", "2", "3", "4", "5", "6", "7", "8", "9">>)[i + 1], " ", "-", " ">> \o file_name

\* C7: after a successful Shuffle run over N songs into an absent or empty
\* output directory, that directory is flat and holds exactly N files, named
\* `i - name` with each i of 0..N-1 used once over some permutation of the
\* scanned songs, each with the content of its song.
C7_ShuffledOutput ==
    (mode = "Shuffle" /\ pc = "done" /\ result = "Ok" /\ OutputFreshAtStart) =>
        LET S == SongPathSet(dirs0, files0, app_config.input_dir)
            N == Cardinality(S)
            outFiles == {p \in DOMAIN files : Under(p, OutDir)}
        IN  /\ {p \in dirs : Under(p, OutDir)} = {}
            /\ Cardinality(outFiles) = N
            /\ \E perm \in Orderings(S) :
                  /\ outFiles = {Append(OutDir, ClaimedShuffledName(i - 1, FileName(perm[i]))) :
                                    i \in 1 .. N}
                  /\ \A i \in 1 .. N :
                        files[Append(OutDir, ClaimedShuffledName(i - 1, FileName(perm[i])))]
                            = files0[perm[i]]

C7_Witness ==
    /\ mode = "Shuffle" /\ pc = "done" /\ result = "Ok" /\ OutputFreshAtStart
    /\ Len(songs) = 2
    /\ Append(OutDir, ClaimedShuffledName(1, NameA)) \in DOMAIN files
    /\ Append(OutDir, ClaimedShuffledName(0, NameB)) \in DOMAIN files

\* nothing follows a failed operation, the run returns that error, and a
\* notice (a skipped song) occurs only with overwrite off, after metadata
\* found the destination
FailFast ==
    /\ \A k \in EventsAt : log[k].res = "err" => k = Len(log) /\ pc = "done"
    /\ result # "none" => pc = "done"
    /\ pc = "done" =>
          (result = "Err" <=>
              (log[Len(log)].res = "err"
                  /\ log[Len(log)].op \in {"create_dir", "remove_file", "copy"}))
    /\ \A k \in EventsAt :
          log[k].op = "notice" =>
              /\ ~app_config.overwrite
              /\ k > 1 /\ log[k - 1].op = "metadata" /\ log[k - 1].res # "none"
                 /\ log[k - 1].target = log[k].target

AllSongsHandled == \A s \in ScannedSet : Handled(s)

\* the output directory was created or found to exist
OutputDirEnsured ==
    \E k \in EventsAt :
        /\ log[k].op = "create_dir" /\ log[k].path = app_config.output_dir
        /\ log[k].res \in {"ok", "exists"}

\* C9 as stated: the run is fail-fast, and a run (that read its input
\* directory) returns Ok exactly when every song was copied or skipped.
C9_AsStated ==
    /\ FailFast
    /\ (pc = "done" /\ Scanned) => (result = "Ok" <=> AllSongsHandled)

\* C9, amended: the run is fail-fast, and a run returns Ok exactly when the
\* output directory was created or already existed and every song was
\* copied or skipped.
C9_FailFast ==
    /\ FailFast
    /\ pc = "done" => (result = "Ok" <=> (OutputDirEnsured /\ AllSongsHandled))

\* a copy failed with a song still to go, and the run returned the error
C9_Witness ==
    /\ pc = "done" /\ result = "Err"
    /\ log[Len(log)].op = "copy" /\ log[Len(log)].res = "err"
    /\ Len(songs) = 2
    /\ \E s \in ScannedSet : \A k \in EventsAt : Resolve(log[k].from) # s

====
